---- MODULE Spec2Model ----
(***************************************************************************)
(* Graph retrieval of the Graph-RAG chat system: the text form             *)
(* (structured_retriever, graph_rag_structured.py) and the index form      *)
(* (get_graph_data, app.py) of the relationship subgraph of an entity,     *)
(* and the handlers of the Gradio application built on them.               *)
(*                                                                         *)
(* Strings are sequences of character codes, so that case folding,         *)
(* rendering, concatenation and lexicographic order are computed.          *)
(***************************************************************************)
EXTENDS Integers, Sequences, FiniteSets, TLC

\* ------------------------------------------------------------- bounds
\* Number of nodes of the store.
MaxNodes == 3
\* Largest number of relationships of the store.
MaxRels == 2
\* Largest number of names the entity extractor returns.
MaxEntities == 2

\* ------------------------------------------------------------ strings
\* Cypher null / Python None.
Null == <<-1>>

\* toLower / str.lower on the letters A-Z.
LowerChar(c) == IF c >= 65 /\ c <= 90 THEN c + 32 ELSE c
ToLower(s) == [i \in 1..Len(s) |-> LowerChar(s[i])]

\* Code-point order of two strings.
StrLess(a, b) ==
    \E i \in 1..(Len(b)) :
        /\ \A j \in 1..(i - 1) : j <= Len(a) /\ a[j] = b[j]
        /\ \/ i = Len(a) + 1
           \/ i <= Len(a) /\ a[i] < b[i]

\* ORDER BY output, ascending: null sorts after every string.
OrderLess(a, b) ==
    IF a = Null THEN FALSE
    ELSE IF b = Null THEN TRUE
    ELSE StrLess(a, b)

SArrowOpen == <<32, 45, 91>>            \* " -["
SArrowClose == <<93, 45, 62, 32>>       \* "]-> "
SNewline == <<10>>                      \* "\n"
SColon == <<58, 32>>                    \* ": "
\* "No relationships found for entity: "
SNoRel == <<78, 111, 32, 114, 101, 108, 97, 116, 105, 111, 110, 115, 104,
            105, 112, 115, 32, 102, 111, 117, 110, 100, 32, 102, 111, 114,
            32, 101, 110, 116, 105, 116, 121, 58, 32>>
\* "Grandparent id of "
SGrandparent == <<71, 114, 97, 110, 100, 112, 97, 114, 101, 110, 116, 32,
                  105, 100, 32, 111, 102, 32>>
\* "No grandparent found for "
SNoGrandparent == <<78, 111, 32, 103, 114, 97, 110, 100, 112, 97, 114, 101,
                    110, 116, 32, 102, 111, 117, 110, 100, 32, 102, 111,
                    114, 32>>

\* -------------------------------------------------------------- store
Nodes == 1..MaxNodes

\* Values of the id attribute in the store: "A", "B", "a", or no attribute.
IdValues == << <<65>>, <<66>>, <<97>>, Null >>
\* Relationship types: "R", "S".
RelTypes == << <<82>>, <<83>> >>
\* Entity names the extractor may return: "A", "b", "Ghost", "O'B".
EntityNames == { <<65>>, <<98>>, <<71, 104, 111, 115, 116>>, <<79, 39, 66>> }

VARIABLES
    nodeId,         \* store: node -> its id attribute, or Null
    rels,           \* store: sequence of relationships [src, type, dst]
    call,           \* the last completed call and its arguments
    outcome,        \* how it ended: [kind |-> "return"] or a raise
    result,         \* structured_retriever: the returned string
    node_map,       \* get_graph_data: node id -> local index
    relationships,  \* get_graph_data: list of [source, target, caption]
    trav,           \* the store's path expansion for one anchor, step by step
    pc,             \* position of the request handler of the application
    chat_history,   \* Chatbot component: list of <<question, reply>>
    graph_filename, \* gr.State: file of the last graph, or Null
    graph_status,   \* graph_status_display: the status text
    button_visible, \* open_graph_btn: whether it is shown
    written,        \* the files net.write_html has written
    open_drivers,   \* drivers created and not closed
    DEBUG_MODE,     \* the global flag of app.py
    debug_logs,     \* the global list of app.py
    handlers        \* concurrent handler calls: position and locals of each

storeVars == <<nodeId, rels>>
callVars == <<call, outcome, result, node_map, relationships>>
uiVars == <<pc, chat_history, graph_filename, graph_status, button_visible>>
envVars == <<written, open_drivers>>
debugVars == <<DEBUG_MODE, debug_logs, handlers>>
vars == <<nodeId, rels, call, outcome, result, node_map, relationships, trav,
          pc, chat_history, graph_filename, graph_status, button_visible,
          written, open_drivers, DEBUG_MODE, debug_logs, handlers>>

\* A store-assigned element identifier: "4:" followed by the node's digit.
ElementId(n) == <<52, 58, 48 + n>>

RelIds == 1..Len(rels)

\* Position of a value in a tuple of distinct values.
IndexIn(t, v) == CHOOSE i \in 1..Len(t) : t[i] = v

RelRank(r) ==
    ((r.src - 1) * MaxNodes + (r.dst - 1)) * Len(RelTypes)
        + IndexIn(RelTypes, r.type)

\* The stores considered: every assignment of id attributes and every
\* multiset of at most MaxRels relationships, one representative for each
\* renaming of the store-assigned node and relationship identifiers.
StoreNodeIds ==
    { f \in [Nodes -> {IdValues[i] : i \in 1..Len(IdValues)}] :
        \A n \in Nodes : n > 1 =>
            IndexIn(IdValues, f[n - 1]) <= IndexIn(IdValues, f[n]) }

RelKinds ==
    [src : Nodes, type : {RelTypes[i] : i \in 1..Len(RelTypes)}, dst : Nodes]

StoreRels ==
    UNION { { s \in [1..k -> RelKinds] :
                \A i \in 1..k : i > 1 => RelRank(s[i - 1]) <= RelRank(s[i]) }
            : k \in 0..MaxRels }

\* ------------------------------------------------------------- Cypher
\* MATCH (n) WHERE toLower(n.id) = toLower(entity): a node without the
\* attribute gives null = ..., which is not true.
Anchors(entity) ==
    { n \in Nodes : nodeId[n] # Null /\ ToLower(nodeId[n]) = ToLower(entity) }

\* Paths of a variable-length pattern never use a relationship twice.
\* All extensions of the forward path `path` (relationship ids) ending in
\* node `last`, the path itself included.
RECURSIVE PathsForward(_, _)
PathsForward(path, last) ==
    {path} \cup
    UNION { PathsForward(Append(path, r), rels[r].dst) :
            r \in { x \in RelIds :
                      /\ rels[x].src = last
                      /\ \A i \in 1..Len(path) : path[i] # x } }

\* The same against the direction: paths that end in the anchor, grown at
\* their start.
RECURSIVE PathsBackward(_, _)
PathsBackward(path, first) ==
    {path} \cup
    UNION { PathsBackward(<<r>> \o path, rels[r].src) :
            r \in { x \in RelIds :
                      /\ rels[x].dst = first
                      /\ \A i \in 1..Len(path) : path[i] # x } }

\* OPTIONAL MATCH pOut = (n)-[*1..]->(m)
OutPaths(n) == { p \in PathsForward(<<>>, n) : Len(p) >= 1 }
\* OPTIONAL MATCH pIn = (m)-[*1..]->(n)
InPaths(n) == { p \in PathsBackward(<<>>, n) : Len(p) >= 1 }

RelsOf(paths) == UNION { { p[i] : i \in 1..Len(p) } : p \in paths }

\* UNWIND relationships(pOut) AS relOut WITH DISTINCT relOut AS rel, over
\* all anchors; an anchor without a path gives a null path and no row.
OutRels(entity) == UNION { RelsOf(OutPaths(n)) : n \in Anchors(entity) }
InRels(entity) == UNION { RelsOf(InPaths(n)) : n \in Anchors(entity) }

\* The orders in which the store may produce the rows of a set.
Orders(S) ==
    { f \in [1..Cardinality(S) -> S] : \A x \in S : \E i \in DOMAIN f : f[i] = x }

\* The position of the k-th member of a set of positions; 0 for k = 0.
Kth(P, k) ==
    IF k = 0 THEN 0
    ELSE CHOOSE i \in P : Cardinality({ j \in P : j <= i }) = k

\* UNION ALL, and WITH without DISTINCT: every row is kept.
KeepAll(rows) == rows

\* UNION and WITH DISTINCT keep the first of equal rows.
RECURSIVE Distinct(_)
Distinct(rows) ==
    IF rows = <<>> THEN <<>>
    ELSE LET front == Distinct(SubSeq(rows, 1, Len(rows) - 1))
             last == rows[Len(rows)]
         IN IF \E i \in 1..Len(front) : front[i] = last
            THEN front ELSE Append(front, last)

\* ORDER BY output of one branch: a stable insertion sort of its rows.
RECURSIVE OrderBy(_)
OrderBy(rows) ==
    IF rows = <<>> THEN <<>>
    ELSE LET front == OrderBy(SubSeq(rows, 1, Len(rows) - 1))
             last == rows[Len(rows)]
             k == Cardinality({ i \in 1..Len(front) : ~OrderLess(last, front[i]) })
         IN SubSeq(front, 1, k) \o <<last>> \o SubSeq(front, k + 1, Len(front))

\* ------------------------------------------ text form: structured_retriever
\* startNode(rel).id + ' -[' + type(rel) + ']-> ' + endNode(rel).id: a string
\* concatenated with null is null.
Output(r) ==
    IF nodeId[rels[r].src] = Null \/ nodeId[rels[r].dst] = Null THEN Null
    ELSE nodeId[rels[r].src] \o SArrowOpen \o rels[r].type \o SArrowClose
            \o nodeId[rels[r].dst]

Outputs(relSeq) == [i \in 1..Len(relSeq) |-> Output(relSeq[i])]

\* The relationship query of structured_retriever: the rows of the outgoing
\* branch in the order the store produces them, then the rows of the
\* incoming branch, to whose RETURN the ORDER BY belongs; UNION removes the
\* duplicates. All the lists the store may answer.
RelationshipQueryText(entity) ==
    { Distinct(Outputs(ord) \o OrderBy(Outputs(inOrd))) :
        ord \in Orders(OutRels(entity)), inOrd \in Orders(InRels(entity)) }

\* "\n".join(rows)
RECURSIVE Join(_)
Join(rows) ==
    IF rows = <<>> THEN <<>>
    ELSE IF Len(rows) = 1 THEN rows[1]
    ELSE rows[1] \o SNewline \o Join(Tail(rows))

\* The text appended for the rows of one entity.
RelationshipText(response, entity) ==
    IF response # <<>> THEN Join(response) \o SNewline
    ELSE SNoRel \o entity \o SNewline

\* The grandparent query: OPTIONAL MATCH (n)-[*2]->(grand) RETURN DISTINCT
\* grand.id LIMIT 1. The distinct values over all anchors, an anchor
\* without a path of two relationships giving null.
GrandparentValues(entity) ==
    UNION { LET two == { p \in PathsForward(<<>>, n) : Len(p) = 2 }
            IN IF two = {} THEN {Null}
               ELSE { nodeId[rels[p[2]].dst] : p \in two }
            : n \in Anchors(entity) }

\* LIMIT 1 keeps whichever row the store produces first.
GrandparentQuery(entity) ==
    IF GrandparentValues(entity) = {} THEN { <<>> }
    ELSE { <<v>> : v \in GrandparentValues(entity) }

GrandparentText(gp, entity) ==
    IF gp # <<>> /\ gp[1] # Null /\ gp[1] # <<>>
    THEN SGrandparent \o entity \o SColon \o gp[1] \o SNewline
    ELSE SNoGrandparent \o entity \o SNewline

Return(v) == [kind |-> "return", value |-> v]
Raise(e) == [kind |-> "raise", value |-> e]

\* The loop of structured_retriever from the i-th name on, `acc` being the
\* result so far; the store raises in its failAt-th query (0: in none).
\* All the outcomes the store's row orders allow.
RECURSIVE RetrieverLoop(_, _, _, _)
RetrieverLoop(names, i, acc, failAt) ==
    IF i > Len(names) THEN { Return(acc) }
    ELSE IF failAt = 2 * i - 1 THEN { Raise("StoreError") }
    ELSE UNION {
        \* str.join raises TypeError on a None item
        IF \E k \in 1..Len(response) : response[k] = Null
        THEN { Raise("TypeError") }
        ELSE IF failAt = 2 * i THEN { Raise("StoreError") }
        ELSE UNION {
            RetrieverLoop(names, i + 1,
                acc \o RelationshipText(response, names[i])
                    \o GrandparentText(gp, names[i]), failAt)
            : gp \in GrandparentQuery(names[i]) }
        : response \in RelationshipQueryText(names[i]) }

\* structured_retriever once entity_chain has returned `names`.
structured_retriever(names, failAt) == RetrieverLoop(names, 1, <<>>, failAt)

\* ------------------------------------------------ index form: get_graph_data
\* The f-string writes the name between single quotes into the query text.
\* A quote or a backslash in the name ends or escapes the literal early and
\* what follows no longer parses: for the names of EntityNames the store
\* rejects the query.
QueryTextParses(entity) ==
    \A i \in 1..Len(entity) : entity[i] # 39 /\ entity[i] # 92

\* RETURN startNode(rel) AS source, type(rel) AS rel_type, endNode(rel) AS target
Record(r) ==
    [source |-> rels[r].src, rel_type |-> rels[r].type, target |-> rels[r].dst]

Records(relSeq) == [i \in 1..Len(relSeq) |-> Record(relSeq[i])]

\* The query of get_graph_data: the rows of both branches in the order the
\* store produces them, duplicates removed by UNION. Nodes are compared by
\* identity. All the lists the store may answer.
GraphDataQuery(entity) ==
    { Distinct(Records(ord) \o Records(inOrd)) :
        ord \in Orders(OutRels(entity)), inOrd \in Orders(InRels(entity)) }

\* s.get("id", s.element_id)
NodeKey(n) == IF nodeId[n] # Null THEN nodeId[n] ELSE ElementId(n)

EmptyMap == [k \in {} |-> 0]

\* node_map[key] = idx without the idx += 1 that follows it.
AddNodeNoIncrement(st, key) ==
    IF key \in DOMAIN st.node_map THEN st
    ELSE [st EXCEPT
            !.node_map = [k \in DOMAIN st.node_map \cup {key} |->
                            IF k = key THEN st.idx ELSE st.node_map[k]]]

\* node_map[key] = idx, when the key is new.
AddNode(st, key) ==
    IF key \in DOMAIN st.node_map THEN st
    ELSE [st EXCEPT
            !.node_map = [k \in DOMAIN st.node_map \cup {key} |->
                            IF k = key THEN st.idx ELSE st.node_map[k]],
            !.idx = st.idx + 1]

\* One iteration of the loop over the result records.
ProcessRecord(st, record) ==
    LET s_id == NodeKey(record.source)
        t_id == NodeKey(record.target)
        st2 == AddNode(AddNode(st, s_id), t_id)
    IN [st2 EXCEPT !.relationships =
            Append(st2.relationships,
                [source |-> st2.node_map[s_id],
                 target |-> st2.node_map[t_id],
                 caption |-> record.rel_type])]

\* The loop over the result records, from node_map = {}, relationships = [],
\* idx = 0.
RECURSIVE ProcessRecords(_)
ProcessRecords(records) ==
    IF records = <<>>
    THEN [node_map |-> EmptyMap, relationships |-> <<>>, idx |-> 0]
    ELSE ProcessRecord(ProcessRecords(SubSeq(records, 1, Len(records) - 1)),
                       records[Len(records)])

\* get_graph_data with tx.run in a try whose except gives no records.
get_graph_data_no_records(entity, fails) ==
    IF ~QueryTextParses(entity) \/ fails THEN { Return(ProcessRecords(<<>>)) }
    ELSE { Return(ProcessRecords(records)) : records \in GraphDataQuery(entity) }

\* get_graph_data(tx, entity): all the outcomes the store allows; `fails`
\* says that tx.run raises.
get_graph_data(entity, fails) ==
    IF ~QueryTextParses(entity) THEN { Raise("CypherSyntaxError") }
    ELSE IF fails THEN { Raise("StoreError") }
    ELSE { Return(ProcessRecords(records)) : records \in GraphDataQuery(entity) }

\* ------------------------------------------------------- the two calls
\* The lists of names the entity extractor may return.
NameLists == UNION { [1..k -> EntityNames] : k \in 0..MaxEntities }

NoCall == [fn |-> "none"]

\* "Ready to process your question..."
SReady == <<82, 101, 97, 100, 121, 32, 116, 111, 32, 112, 114, 111, 99, 101,
            115, 115, 32, 121, 111, 117, 114, 32, 113, 117, 101, 115, 116,
            105, 111, 110, 46, 46, 46>>

TravIdle == [pc |-> "idle"]

\* Largest number of handler calls running at once.
MaxProcs == 2
Procs == 1..MaxProcs
\* No handler call is running.
HandlerIdle == [pc |-> "idle"]

\* Nothing called yet, the interface as it is built.
InitRest ==
    /\ call = NoCall
    /\ outcome = Return(<<>>)
    /\ result = <<>>
    /\ node_map = EmptyMap
    /\ relationships = <<>>
    /\ trav = TravIdle
    /\ pc = "idle"
    /\ chat_history = <<>>
    /\ graph_filename = Null
    /\ graph_status = SReady
    /\ button_visible = FALSE
    /\ written = {}
    /\ open_drivers = 0
    /\ DEBUG_MODE = FALSE
    /\ debug_logs = <<>>
    /\ handlers = [p \in Procs |-> HandlerIdle]

Init ==
    /\ nodeId \in StoreNodeIds
    /\ rels \in StoreRels
    /\ InitRest

\* A call of structured_retriever whose entity extraction returns `names`.
StructuredRetriever ==
    /\ call = NoCall
    /\ \E names \in NameLists, failAt \in 0..(2 * MaxEntities) :
        /\ failAt <= 2 * Len(names)
        /\ \E o \in structured_retriever(names, failAt) :
            /\ call' = [fn |-> "structured_retriever", names |-> names,
                        failAt |-> failAt]
            /\ outcome' = [o EXCEPT !.value = IF o.kind = "raise" THEN @ ELSE <<>>]
            /\ result' = IF o.kind = "return" THEN o.value ELSE <<>>
            /\ node_map' = EmptyMap
            /\ relationships' = <<>>
            /\ UNCHANGED <<storeVars, envVars, debugVars, trav, uiVars>>

\* A call of get_graph_data in a read transaction.
GetGraphData ==
    /\ call = NoCall
    /\ \E entity \in EntityNames, fails \in BOOLEAN :
        \E o \in get_graph_data(entity, fails) :
            /\ call' = [fn |-> "get_graph_data", names |-> <<entity>>,
                        failAt |-> IF fails THEN 1 ELSE 0]
            /\ outcome' = [o EXCEPT !.value = IF o.kind = "raise" THEN @ ELSE <<>>]
            /\ result' = <<>>
            /\ node_map' = IF o.kind = "return" THEN o.value.node_map ELSE EmptyMap
            /\ relationships' =
                    IF o.kind = "return" THEN o.value.relationships ELSE <<>>
            /\ UNCHANGED <<storeVars, envVars, debugVars, trav, uiVars>>

\* The caller is done with what the call gave: nothing of a retrieval is
\* kept for the next one.
Discard ==
    /\ call # NoCall
    /\ call' = NoCall
    /\ outcome' = Return(<<>>)
    /\ result' = <<>>
    /\ node_map' = EmptyMap
    /\ relationships' = <<>>
    /\ UNCHANGED <<storeVars, envVars, debugVars, trav, uiVars>>

Next == StructuredRetriever \/ GetGraphData \/ Discard

Spec == Init /\ [][Next]_vars

\* ===================================================================
\* Reading a returned text back: its lines and the part of each entity.
\* ===================================================================
\* The lines of a text in which every line ends with "\n".
Lines(s) ==
    LET ends == { i \in 1..Len(s) : s[i] = 10 }
    IN [k \in 1..Cardinality(ends) |->
            SubSeq(s, Kth(ends, k - 1) + 1, Kth(ends, k) - 1)]

HasPrefix(s, p) == Len(s) >= Len(p) /\ SubSeq(s, 1, Len(p)) = p

\* The line that closes the part of an entity.
IsProbeLine(l) == HasPrefix(l, SGrandparent) \/ HasPrefix(l, SNoGrandparent)

\* For each entity of the call, in order, its lines without the probe
\* line: the lines before the i-th probe line and after the one before it.
RelationshipLines(text) ==
    LET lines == Lines(text)
        probes == { i \in 1..Len(lines) : IsProbeLine(lines[i]) }
    IN [k \in 1..Cardinality(probes) |->
            SubSeq(lines, Kth(probes, k - 1) + 1, Kth(probes, k) - 1)]

Returned(fn) == call # NoCall /\ call.fn = fn /\ outcome.kind = "return"

\* The line "No relationships found for entity: {e}".
NoRelLine(e) == SNoRel \o e

\* -------------------------------------------------------------------
\* C1. No-match policy: for an entity whose case-folded name is the
\* case-folded id of no node, structured_retriever contributes exactly
\* the line "No relationships found for entity: {e}" and no relationship
\* line, and get_graph_data returns an empty node map and an empty
\* relationship list. The statement of the claim; it fails on the code for
\* a name with a quote, which get_graph_data writes into the query text.
C1_NoMatchPolicy ==
    /\ Returned("structured_retriever") =>
          /\ Len(RelationshipLines(result)) = Len(call.names)
          /\ \A i \in 1..Len(call.names) :
                Anchors(call.names[i]) = {} =>
                    RelationshipLines(result)[i] = << NoRelLine(call.names[i]) >>
    /\ (call # NoCall /\ call.fn = "get_graph_data" /\ call.failAt = 0
            /\ Anchors(call.names[1]) = {}) =>
          /\ outcome.kind = "return"
          /\ node_map = EmptyMap
          /\ relationships = <<>>

\* -------------------------------------------------------------------
\* C2. Deduplication: the relationships returned for an entity hold each
\* (source, type, target) at most once: no two relationship lines of one
\* entity in the text form are equal, and no two entries of the index
\* form's relationship list have the same source index, caption and target
\* index. The statement of the claim; the index form breaks it when two
\* nodes of the store carry the same id.
NoRepeats(seq) ==
    \A i, j \in 1..Len(seq) : i # j => seq[i] # seq[j]

C2_Deduplication ==
    /\ Returned("structured_retriever") =>
          \A k \in 1..Len(RelationshipLines(result)) :
              NoRepeats(RelationshipLines(result)[k])
    /\ Returned("get_graph_data") => NoRepeats(relationships)

\* -------------------------------------------------------------------
\* C3. RetrievalResult invariant: after get_graph_data, every source and
\* target index of the relationship list is the value of an entry of
\* node_map, every entry of node_map is referenced by a relationship, no
\* two node ids have the same index, and the indices are 0, 1, 2, ... in
\* the order in which the relationships first refer to them.
Range(f) == { f[x] : x \in DOMAIN f }

\* source, target of the first relationship, of the second, ...
Endpoints(relList) ==
    [k \in 1..(2 * Len(relList)) |->
        IF k % 2 = 1 THEN relList[(k + 1) \div 2].source
        ELSE relList[k \div 2].target]

FirstAt(seq, v) == CHOOSE k \in 1..Len(seq) :
    seq[k] = v /\ \A j \in 1..(k - 1) : seq[j] # v

C3_RetrievalResultInvariant ==
    Returned("get_graph_data") =>
        LET ends == Endpoints(relationships)
            n == Cardinality(DOMAIN node_map)
        IN /\ Range(ends) = Range(node_map)
           /\ Range(node_map) = 0..(n - 1)
           /\ \A a, b \in DOMAIN node_map : node_map[a] = node_map[b] => a = b
           /\ \A v \in 1..(n - 1) : FirstAt(ends, v - 1) < FirstAt(ends, v)

C3_Witness ==
    /\ Returned("get_graph_data")
    /\ Len(relationships) >= 2
    /\ Cardinality(DOMAIN node_map) >= 3

\* -------------------------------------------------------------------
\* C4. Ordering: the relationship lines of one entity in the text form are
\* sorted by the rendered string, over the rows of both directions
\* together. The statement of the claim; in the code the ORDER BY belongs
\* to the RETURN of the incoming branch only.
Sorted(seq) ==
    \A i, j \in 1..Len(seq) : i < j => ~StrLess(seq[j], seq[i])

C4_Ordering ==
    Returned("structured_retriever") =>
        \A k \in 1..Len(RelationshipLines(result)) :
            Sorted(RelationshipLines(result)[k])

\* -------------------------------------------------------------------
\* C10. Same traversal semantics: for an entity, the triples that
\* structured_retriever renders as relationship lines are the triples of
\* the relationship list of get_graph_data, indices mapped back to node
\* ids. The statement of the claim; a node without id is rendered as null
\* by the text form (and the join then raises) and by its element id in the
\* index form.
KeyOfIndex(v) == CHOOSE k \in DOMAIN node_map : node_map[k] = v

IndexFormLines ==
    { KeyOfIndex(relationships[i].source) \o SArrowOpen
          \o relationships[i].caption \o SArrowClose
          \o KeyOfIndex(relationships[i].target) : i \in 1..Len(relationships) }

TextFormLines(text, entity) ==
    { l \in Range(RelationshipLines(text)[1]) : l # NoRelLine(entity) }

C10_SameTraversal ==
    Returned("get_graph_data") =>
        \A o \in structured_retriever(call.names, 0) :
            /\ o.kind = "return"
            /\ TextFormLines(o.value, call.names[1]) = IndexFormLines

\* -------------------------------------------------------------------
\* C11. Grandparent probe: the text form has one probe line for each
\* entity, in input order, after the entity's relationship lines; it is
\* "Grandparent id of {e}: {g}", g the id of a node two forward hops from an
\* anchor of e, whenever some anchor has such a node, and "No grandparent
\* found for {e}" only when no anchor has one. The statement of the claim;
\* in the code the anchor without such a node gives a null row, which
\* LIMIT 1 may keep.
ProbeLines(text) ==
    LET lines == Lines(text)
        probes == { i \in 1..Len(lines) : IsProbeLine(lines[i]) }
    IN [k \in 1..Cardinality(probes) |-> lines[Kth(probes, k)]]

\* The nodes two forward hops from an anchor of the entity.
TwoHops(entity) ==
    UNION { { rels[p[2]].dst : p \in { q \in PathsForward(<<>>, n) : Len(q) = 2 } }
            : n \in Anchors(entity) }

C11_GrandparentProbe ==
    Returned("structured_retriever") =>
        /\ Len(ProbeLines(result)) = Len(call.names)
        /\ Lines(result) # <<>> => IsProbeLine(Lines(result)[Len(Lines(result))])
        /\ \A i \in 1..Len(call.names) :
            LET e == call.names[i]
                line == ProbeLines(result)[i]
            IN IF TwoHops(e) = {}
               THEN line = SNoGrandparent \o e
               ELSE \E g \in TwoHops(e) :
                        line = SGrandparent \o e \o SColon \o nodeId[g]

\* -------------------------------------------------------------------
\* C12. The context string is deterministic: on an unchanged store and for
\* the same list of entities, every run of the text-form retrieval returns
\* the string this run has returned, in whatever order the store iterates
\* its rows. The statement of the claim; the rows of the outgoing branch
\* are not ordered and LIMIT 1 keeps the first row of an unordered result.
C12_ContextDeterminism ==
    (Returned("structured_retriever") /\ call.failAt = 0) =>
        \A o \in structured_retriever(call.names, 0) :
            o.kind = "return" /\ o.value = result

\* ===================================================================
\* The expansion of (n)-[*1..]->(m) and (m)-[*1..]->(n) for one anchor,
\* one step at a time: a depth-first enumeration of the paths that use no
\* relationship twice, each path found giving its relationships as rows.
\* ===================================================================
Reverse(seq) == [i \in 1..Len(seq) |-> seq[Len(seq) + 1 - i]]

\* The node at which the current path is extended.
TravTip ==
    IF trav.path = <<>> THEN trav.anchor
    ELSE IF trav.pc = "out" THEN rels[trav.path[Len(trav.path)]].dst
    ELSE rels[trav.path[Len(trav.path)]].src

\* The relationships not yet tried at this depth that extend the path.
TravCandidates ==
    { x \in RelIds :
        /\ IF trav.pc = "out" THEN rels[x].src = TravTip ELSE rels[x].dst = TravTip
        /\ \A i \in 1..Len(trav.path) : trav.path[i] # x
        /\ x > trav.cursor[Len(trav.cursor)] }

Min(S) == CHOOSE x \in S : \A y \in S : x <= y

TravRunning == trav.pc \in {"out", "in"}

\* When each step of the expansion is possible.
CanExtend == TravRunning /\ TravCandidates # {}
CanBacktrack == TravRunning /\ TravCandidates = {} /\ trav.path # <<>>
CanTurn == trav.pc = "out" /\ TravCandidates = {} /\ trav.path = <<>>
CanFinish == trav.pc = "in" /\ TravCandidates = {} /\ trav.path = <<>>

\* MATCH (n) WHERE toLower(n.id) = toLower(entity): one of the anchors.
TravStart ==
    /\ trav.pc = "idle"
    /\ \E entity \in EntityNames : \E n \in Anchors(entity) :
        trav' = [pc |-> "out", anchor |-> n, path |-> <<>>, cursor |-> <<0>>,
                 rowsOut |-> <<>>, rowsIn |-> <<>>, rows |-> <<>>,
                 steps |-> 0]
    /\ UNCHANGED <<storeVars, envVars, debugVars, callVars, uiVars>>

\* A longer path: UNWIND relationships(p) gives a row for each of its
\* relationships.
TravExtend ==
    /\ CanExtend
    /\ LET x == Min(TravCandidates)
           longer == Append(trav.path, x)
       IN trav' = [trav EXCEPT
                !.steps = @ + 1,
                !.path = longer,
                !.cursor = [@ EXCEPT ![Len(@)] = x] \o <<0>>,
                !.rowsOut = IF trav.pc = "out" THEN @ \o longer ELSE @,
                !.rowsIn = IF trav.pc = "in" THEN @ \o Reverse(longer) ELSE @]
    /\ UNCHANGED <<storeVars, envVars, debugVars, callVars, uiVars>>

\* Nothing extends the path: back to the path it was grown from.
TravBacktrack ==
    /\ CanBacktrack
    /\ trav' = [trav EXCEPT
            !.steps = @ + 1,
            !.path = SubSeq(@, 1, Len(@) - 1),
            !.cursor = SubSeq(@, 1, Len(@) - 1)]
    /\ UNCHANGED <<storeVars, envVars, debugVars, callVars, uiVars>>

\* The outgoing paths are exhausted: the incoming ones.
TravTurn ==
    /\ CanTurn
    /\ trav' = [trav EXCEPT !.steps = @ + 1, !.pc = "in", !.cursor = <<0>>]
    /\ UNCHANGED <<storeVars, envVars, debugVars, callVars, uiVars>>

\* Both exhausted: WITH DISTINCT in each branch, then UNION.
TravFinish ==
    /\ CanFinish
    /\ trav' = [trav EXCEPT
            !.steps = @ + 1,
            !.pc = "done",
            !.rows = Distinct(Records(Distinct(trav.rowsOut))
                                \o Records(Distinct(trav.rowsIn)))]
    /\ UNCHANGED <<storeVars, envVars, debugVars, callVars, uiVars>>

TravStep == TravExtend \/ TravBacktrack \/ TravTurn \/ TravFinish

TravNext == TravStart \/ TravStep

TraversalSpec == Init /\ [][TravNext]_vars

\* -------------------------------------------------------------------
\* C9. For a store with a cycle reachable from an anchor, the expansion
\* without a bound on the depth (no relationship twice in one path)
\* terminates: while it runs a step is possible, and it has taken fewer
\* steps than there are paths to enter and to leave in both directions.
\* At its end every distinct directed edge of the cycle is exactly once in
\* the deduplicated rows returned for the anchor, which are the rows of the
\* query of get_graph_data.
Reaches(a, b) ==
    a = b \/ \E p \in OutPaths(a) : rels[p[Len(p)]].dst = b

\* A relationship on a directed cycle that the anchor reaches or is
\* reached from.
OnCycleAt(x, n) ==
    /\ Reaches(rels[x].dst, rels[x].src)
    /\ Reaches(n, rels[x].src) \/ Reaches(rels[x].dst, n)

Count(seq, v) == Cardinality({ i \in 1..Len(seq) : seq[i] = v })

\* The sequences without repetition of at most r out of r relationships.
RECURSIVE Arrangements(_)
Arrangements(r) == IF r = 0 THEN 1 ELSE 1 + r * Arrangements(r - 1)

\* Every path but the empty one is entered once and left once, in each
\* direction; then the turn and the end.
StepBound == 4 * (Arrangements(Len(rels)) - 1) + 2

C9_CycleTraversal ==
    /\ TravRunning =>
        /\ CanExtend \/ CanBacktrack \/ CanTurn \/ CanFinish
        /\ trav.steps < StepBound
    /\ trav.pc = "done" =>
        /\ \A x \in RelIds :
              OnCycleAt(x, trav.anchor) => Count(trav.rows, Record(x)) = 1
        /\ Range(trav.rows) =
              { Record(x) : x \in RelsOf(OutPaths(trav.anchor))
                                    \cup RelsOf(InPaths(trav.anchor)) }

C9_Witness ==
    /\ trav.pc = "done"
    /\ \E x \in RelIds :
          /\ OnCycleAt(x, trav.anchor)
          /\ rels[x].src # rels[x].dst
          /\ Len(trav.rowsOut) > Len(Distinct(trav.rowsOut))

\* ===================================================================
\* The application: process_unified_query and what it calls.
\* ===================================================================
\* Largest number of relationships of the stores of the application.
MaxAppRels == 1
\* Largest number of questions answered in the chat.
MaxQuestions == 1
\* No further question once this many drivers are left open.
MaxDrivers == 2

\* "Youtube"
SYoutube == <<89, 111, 117, 116, 117, 98, 101>>
\* "_graph.html"
SGraphHtml == <<95, 103, 114, 97, 112, 104, 46, 104, 116, 109, 108>>
\* "⚠️ Please enter a question"
SPleaseEnter == <<9888, 65039, 32, 80, 108, 101, 97, 115, 101, 32, 101,
                  110, 116, 101, 114, 32, 97, 32, 113, 117, 101, 115, 116,
                  105, 111, 110>>
\* "❌ No graph data found for entity: "
SNoGraphData == <<10060, 32, 78, 111, 32, 103, 114, 97, 112, 104, 32, 100,
                  97, 116, 97, 32, 102, 111, 117, 110, 100, 32, 102, 111,
                  114, 32, 101, 110, 116, 105, 116, 121, 58, 32>>
\* "❌ Error generating graph: "
SErrorGraph == <<10060, 32, 69, 114, 114, 111, 114, 32, 103, 101, 110, 101,
                 114, 97, 116, 105, 110, 103, 32, 103, 114, 97, 112, 104,
                 58, 32>>
\* "❌ Error: "
SError == <<10060, 32, 69, 114, 114, 111, 114, 58, 32>>
\* "✅ Graph generated for entity: **"
SGenerated == <<9989, 32, 71, 114, 97, 112, 104, 32, 103, 101, 110, 101,
                114, 97, 116, 101, 100, 32, 102, 111, 114, 32, 101, 110,
                116, 105, 116, 121, 58, 32, 42, 42>>
\* "** | Nodes: "
SNodes == <<42, 42, 32, 124, 32, 78, 111, 100, 101, 115, 58, 32>>
\* " | Relationships: "
SRelationships == <<32, 124, 32, 82, 101, 108, 97, 116, 105, 111, 110, 115,
                    104, 105, 112, 115, 58, 32>>

\* str(e) of the exceptions the libraries raise: "extraction failed",
\* "store unavailable", "invalid query", "expected str instance",
\* "synthesis failed".
ErrorText(e) ==
    CASE e = "ExtractionError" ->
            <<101, 120, 116, 114, 97, 99, 116, 105, 111, 110, 32, 102, 97,
              105, 108, 101, 100>>
      [] e = "StoreError" ->
            <<115, 116, 111, 114, 101, 32, 117, 110, 97, 118, 97, 105, 108,
              97, 98, 108, 101>>
      [] e = "CypherSyntaxError" ->
            <<105, 110, 118, 97, 108, 105, 100, 32, 113, 117, 101, 114, 121>>
      [] e = "TypeError" ->
            <<101, 120, 112, 101, 99, 116, 101, 100, 32, 115, 116, 114, 32,
              105, 110, 115, 116, 97, 110, 99, 101>>
      [] e = "SynthesisError" ->
            <<115, 121, 110, 116, 104, 101, 115, 105, 115, 32, 102, 97, 105,
              108, 101, 100>>

\* The questions typed: "", " ", "Q?".
Questions == { <<>>, <<32>>, <<81, 63>> }
\* The answers the chat model may give: "Yes.".
Answers == { <<89, 101, 115, 46>> }

\* entity_chain.invoke: it raises, or returns an Entities with these names.
ExtractionOutcomes ==
    { Raise("ExtractionError") } \cup { Return(names) : names \in NameLists }

\* The chat model at the end of the chain: it raises, or answers.
SynthesisOutcomes ==
    { Raise("SynthesisError") } \cup { Return(a) : a \in Answers }

Max(S) == CHOOSE x \in S : \A y \in S : x >= y

\* str.strip()
Strip(s) ==
    LET keep == { i \in 1..Len(s) : s[i] \notin {9, 10, 13, 32} }
    IN IF keep = {} THEN <<>> ELSE SubSeq(s, Min(keep), Max(keep))

\* str.replace of one character by another
Replace(s, a, b) == [i \in 1..Len(s) |-> IF s[i] = a THEN b ELSE s[i]]

\* str(n) of a natural number
RECURSIVE ToStr(_)
ToStr(n) ==
    IF n < 10 THEN <<48 + n>> ELSE ToStr(n \div 10) \o <<48 + (n % 10)>>

\* Some row of the relationship query of structured_retriever is null.
HasNullRow(entity) ==
    \E r \in OutRels(entity) \cup InRels(entity) : Output(r) = Null

\* The names for which structured_retriever has sent a query when it ends
\* with outcome `o`.
Queried(names, failAt, o) ==
    IF o.kind = "return" THEN names
    ELSE IF o.value = "StoreError" THEN SubSeq(names, 1, (failAt + 1) \div 2)
    ELSE SubSeq(names, 1, Min({ i \in 1..Len(names) : HasNullRow(names[i]) }))

\* chain.invoke({"question": question}): the retriever (entity extraction,
\* then the loop of structured_retriever), then the prompt and the chat
\* model. `ext` and `syn` are what the two models do, `failAt` the query in
\* which the store raises.
chain(ext, failAt, syn) ==
    IF ext.kind = "raise"
    THEN { [outcome |-> ext, context |-> <<>>, queried |-> <<>>] }
    ELSE { IF o.kind = "raise"
           THEN [outcome |-> o, context |-> <<>>,
                 queried |-> Queried(ext.value, failAt, o)]
           ELSE [outcome |-> syn, context |-> o.value, queried |-> ext.value]
           : o \in structured_retriever(ext.value, failAt) }

\* f"{entity.lower().replace(' ', '_')}_graph.html"
GraphFilename(entity) == Replace(ToLower(entity), 32, 95) \o SGraphHtml

\* The except branch of generate_graph_visualization.
GraphFailed(e, queried) ==
    [filename |-> Null, status |-> SErrorGraph \o ErrorText(e),
     visible |-> FALSE, queried |-> queried,
     node_map |-> EmptyMap, relationships |-> <<>>]

\* The drivers generate_graph_visualization leaves open when it returns
\* `g`: driver.close() follows the with block, outside of any finally, so
\* a raise of the query skips it. An extraction that raises comes before
\* the driver is created.
DriversLeftOpen(g) ==
    IF HasPrefix(g.status, SErrorGraph) /\ g.queried # <<>> THEN 1 ELSE 0

\* The files net.write_html has written when it returns `g`.
FilesWritten(g) == IF g.filename # Null THEN {g.filename} ELSE {}

\* generate_graph_visualization from the connection to the store on, for
\* the entity selected; `fails` says that the store raises. What it
\* returns, the entity it has queried and the data it has drawn.
VisualizeEntity(entity, fails) ==
    { IF o.kind = "raise" THEN GraphFailed(o.value, <<entity>>)
      ELSE IF DOMAIN o.value.node_map = {}
      THEN [filename |-> Null, status |-> SNoGraphData \o entity,
            visible |-> FALSE, queried |-> <<entity>>,
            node_map |-> EmptyMap, relationships |-> <<>>]
      ELSE [filename |-> GraphFilename(entity),
            status |-> SGenerated \o entity \o SNodes
                \o ToStr(Cardinality(DOMAIN o.value.node_map))
                \o SRelationships \o ToStr(Len(o.value.relationships)),
            visible |-> TRUE, queried |-> <<entity>>,
            node_map |-> o.value.node_map,
            relationships |-> o.value.relationships]
      : o \in get_graph_data(entity, fails) }

\* generate_graph_visualization with the extraction in a try of its own
\* whose except goes on with no names.
generate_graph_visualization_default(ext, fails) ==
    VisualizeEntity(IF ext.kind = "return" /\ ext.value # <<>>
                    THEN ext.value[1] ELSE SYoutube, fails)

\* generate_graph_visualization extracting the entities anew with outcome
\* `ext`.
generate_graph_visualization(ext, fails) ==
    IF ext.kind = "raise" THEN { GraphFailed(ext.value, <<>>) }
    ELSE VisualizeEntity(IF ext.value # <<>> THEN ext.value[1] ELSE SYoutube,
                         fails)

AppStoreRels == { s \in StoreRels : Len(s) <= MaxAppRels }

AppInit ==
    /\ nodeId \in StoreNodeIds
    /\ rels \in AppStoreRels
    /\ InitRest

\* process_unified_query with a blank question.
ProcessBlank ==
    /\ pc = "idle"
    /\ \E question \in Questions :
        /\ Strip(question) = <<>>
        /\ call' = [fn |-> "process_unified_query", question |-> question,
                    raised |-> "none"]
    /\ outcome' = Return(<<>>)
    /\ result' = <<>>
    /\ node_map' = EmptyMap
    /\ relationships' = <<>>
    /\ graph_filename' = Null
    /\ graph_status' = SPleaseEnter
    /\ button_visible' = FALSE
    /\ UNCHANGED <<storeVars, envVars, debugVars, trav, pc, chat_history>>

\* process_unified_query with a question: step 1, chain.invoke. At most
\* `limit` questions in the chat, and no further question once MaxDrivers
\* drivers are open.
ProcessQuestion(limit) ==
    /\ pc = "idle"
    /\ Len(chat_history) < limit
    /\ open_drivers < MaxDrivers
    /\ \E question \in Questions :
        /\ Strip(question) # <<>>
        /\ \E ext \in ExtractionOutcomes, failAt \in 0..(2 * MaxEntities),
              syn \in SynthesisOutcomes :
            /\ ext.kind = "return" => failAt <= 2 * Len(ext.value)
            /\ ext.kind = "raise" => failAt = 0
            /\ \E c \in chain(ext, failAt, syn) :
                /\ call' = [fn |-> "chain", question |-> question,
                            extraction |-> ext, failAt |-> failAt,
                            queried |-> c.queried]
                /\ outcome' = c.outcome
                /\ result' = c.context
    /\ node_map' = EmptyMap
    /\ relationships' = <<>>
    /\ pc' = "chain"
    /\ UNCHANGED <<storeVars, envVars, debugVars, trav, chat_history,
                   graph_filename, graph_status, button_visible>>

ChainInvoke == ProcessQuestion(MaxQuestions)

\* The chain has answered: the answer goes to the chat, on to step 2.
ChainReturned ==
    /\ pc = "chain"
    /\ outcome.kind = "return"
    /\ chat_history' = Append(chat_history, <<call.question, outcome.value>>)
    /\ call' = [fn |-> "process_unified_query", question |-> call.question,
                raised |-> "none"]
    /\ outcome' = Return(<<>>)
    /\ result' = <<>>
    /\ pc' = "graph"
    /\ UNCHANGED <<storeVars, envVars, debugVars, trav, node_map, relationships,
                   graph_filename, graph_status, button_visible>>

\* The except branch of step 1 without its return: on to step 2.
ChainRaisedNoReturn ==
    /\ pc = "chain"
    /\ outcome.kind = "raise"
    /\ chat_history' = Append(chat_history,
            <<call.question, SError \o ErrorText(outcome.value)>>)
    /\ call' = [fn |-> "process_unified_query", question |-> call.question,
                raised |-> outcome.value]
    /\ outcome' = Return(<<>>)
    /\ result' = <<>>
    /\ pc' = "graph"
    /\ UNCHANGED <<storeVars, envVars, debugVars, trav, node_map, relationships,
                   graph_filename, graph_status, button_visible>>

\* The chain has raised: the except branch of step 1 returns.
ChainRaised ==
    /\ pc = "chain"
    /\ outcome.kind = "raise"
    /\ LET error_msg == SError \o ErrorText(outcome.value)
       IN /\ chat_history' = Append(chat_history, <<call.question, error_msg>>)
          /\ graph_status' = error_msg
    /\ graph_filename' = Null
    /\ button_visible' = FALSE
    /\ call' = [fn |-> "process_unified_query", question |-> call.question,
                raised |-> outcome.value]
    /\ outcome' = Return(<<>>)
    /\ result' = <<>>
    /\ pc' = "idle"
    /\ UNCHANGED <<storeVars, envVars, debugVars, trav, node_map, relationships>>

\* Step 2, generate_graph_visualization, and the return of the handler.
GenerateGraphVisualization ==
    /\ pc = "graph"
    /\ \E ext \in ExtractionOutcomes, fails \in BOOLEAN :
        \E g \in generate_graph_visualization(ext, fails) :
            /\ call' = [fn |-> "generate_graph_visualization",
                        question |-> call.question, extraction |-> ext,
                        fails |-> fails, queried |-> g.queried]
            /\ node_map' = g.node_map
            /\ relationships' = g.relationships
            /\ graph_filename' = g.filename
            /\ graph_status' = g.status
            /\ button_visible' = g.visible
            /\ written' = written \cup FilesWritten(g)
            /\ open_drivers' = open_drivers + DriversLeftOpen(g)
    /\ outcome' = Return(<<>>)
    /\ result' = <<>>
    /\ pc' = "idle"
    /\ UNCHANGED <<storeVars, debugVars, trav, chat_history>>

AppNext ==
    \/ ProcessBlank
    \/ ChainInvoke
    \/ ChainReturned
    \/ ChainRaised
    \/ GenerateGraphVisualization

AppSpec == AppInit /\ [][AppNext]_vars

InChain == call # NoCall /\ call.fn = "chain"
InGraph == call # NoCall /\ call.fn = "generate_graph_visualization"
AfterQuery == call # NoCall /\ call.fn = "process_unified_query"

\* The (source id, type, target id) triples of an index-form result.
Triples(nm, relList) ==
    { << CHOOSE k \in DOMAIN nm : nm[k] = relList[i].source,
         relList[i].caption,
         CHOOSE k \in DOMAIN nm : nm[k] = relList[i].target >>
      : i \in 1..Len(relList) }

\* -------------------------------------------------------------------
\* C5. Multi-entity aggregation of the index form: when the extraction
\* returns [e1, e2], the node map and relationship list that are visualized
\* hold the relationships of the result for e1 and of the result for e2,
\* every extracted entity contributing. The statement of the claim; the
\* code queries the first name only.
C5_Aggregation ==
    (/\ InGraph
     /\ call.extraction.kind = "return"
     /\ Len(call.extraction.value) = 2
     /\ ~call.fails
     /\ \A i \in 1..2 : QueryTextParses(call.extraction.value[i])) =>
        \A o1 \in get_graph_data(call.extraction.value[1], FALSE),
           o2 \in get_graph_data(call.extraction.value[2], FALSE) :
            Triples(node_map, relationships) =
                Triples(o1.value.node_map, o1.value.relationships)
                    \cup Triples(o2.value.node_map, o2.value.relationships)

\* -------------------------------------------------------------------
\* C6. A failure of a store query is never reported as a no-match: when a
\* query of structured_retriever raises, the chain raises the store's error
\* and gives no text, and the handler shows "❌ Error: ..." without a "No
\* relationships found" line; when the query of get_graph_data raises, the
\* status is "❌ Error generating graph: ..." and not "❌ No graph data
\* found for entity: ...", with no file and the button hidden.
Contains(s, p) ==
    \E i \in 1..(Len(s) - Len(p) + 1) : SubSeq(s, i, i + Len(p) - 1) = p

\* The failAt-th query of structured_retriever is reached, no join of
\* an earlier response having raised.
StoreFailureReached(names, failAt) ==
    /\ failAt > 0
    /\ \A i \in 1..(failAt \div 2) : ~HasNullRow(names[i])

C6_StoreFailureDistinct ==
    /\ (/\ InChain
        /\ call.extraction.kind = "return"
        /\ StoreFailureReached(call.extraction.value, call.failAt)) =>
            /\ outcome = Raise("StoreError")
            /\ result = <<>>
    /\ (AfterQuery /\ call.raised = "StoreError") =>
            /\ graph_status = SError \o ErrorText("StoreError")
            /\ chat_history[Len(chat_history)][2] = graph_status
            /\ ~Contains(graph_status, SNoRel)
            /\ graph_filename = Null
            /\ ~button_visible
    /\ (/\ InGraph
        /\ call.extraction.kind = "return"
        /\ call.fails \/ ~QueryTextParses(call.queried[1])) =>
            /\ HasPrefix(graph_status, SErrorGraph)
            /\ ~Contains(graph_status, SNoGraphData)
            /\ graph_filename = Null
            /\ ~button_visible

\* The store fails for an entity that matches no node, in the one form and
\* in the other.
C6_Witness ==
    \/ /\ InGraph
       /\ call.extraction.kind = "return"
       /\ call.fails
       /\ QueryTextParses(call.queried[1])
       /\ Anchors(call.queried[1]) = {}
    \/ /\ AfterQuery
       /\ call.raised = "StoreError"

C8_ChainFailureAborts ==
    [][(pc = "chain" /\ outcome.kind = "raise") =>
        LET error_msg == SError \o ErrorText(outcome.value)
        IN /\ pc' = "idle"
           /\ chat_history' = Append(chat_history, <<call.question, error_msg>>)
           /\ error_msg \notin Answers
           /\ graph_status' = error_msg
           /\ graph_filename' = Null
           /\ ~button_visible'
           /\ node_map' = EmptyMap
           /\ relationships' = <<>>]_vars

C8_Witness ==
    /\ AfterQuery
    /\ call.raised \in {"ExtractionError", "SynthesisError"}
    /\ pc = "idle"
    /\ chat_history # <<>>
    /\ graph_filename = Null

\* -------------------------------------------------------------------
\* C14. Every driver generate_graph_visualization opens is closed when it
\* returns, on every path, also when the session or the query raises. The
\* statement of the claim; driver.close() is skipped by the raise.
C14_DriverClosed ==
    pc = "idle" => open_drivers = 0

\* ===================================================================
\* The events of the interface, one after the other: questions, the
\* clear button and the open-graph button.
\* ===================================================================
\* Largest number of questions in the chat between two clears.
MaxUIQuestions == 2

\* "🌐 Graph opened in new browser tab!"
SOpened == <<127760, 32, 71, 114, 97, 112, 104, 32, 111, 112, 101, 110, 101,
             100, 32, 105, 110, 32, 110, 101, 119, 32, 98, 114, 111, 119,
             115, 101, 114, 32, 116, 97, 98, 33>>
\* "❌ Error opening graph: " and the text of the error, "no browser"
SErrorOpening == <<10060, 32, 69, 114, 114, 111, 114, 32, 111, 112, 101, 110,
                   105, 110, 103, 32, 103, 114, 97, 112, 104, 58, 32, 110,
                   111, 32, 98, 114, 111, 119, 115, 101, 114>>
\* "❌ No graph file to open"
SNoFile == <<10060, 32, 78, 111, 32, 103, 114, 97, 112, 104, 32, 102, 105,
             108, 101, 32, 116, 111, 32, 111, 112, 101, 110>>

\* Every node with an id: "A", "B", and "a" from the third node on.
PlainNodeIds == [n \in Nodes |-> IdValues[Min({n, Len(IdValues) - 1})]]

\* The stores of this specification: every node with an id, at most
\* MaxAppRels relationships, of the first type.
UIInit ==
    /\ nodeId = PlainNodeIds
    /\ rels \in { s \in AppStoreRels :
                      \A i \in 1..Len(s) : s[i].type = RelTypes[1] }
    /\ InitRest

UIChainInvoke == ProcessQuestion(MaxUIQuestions)

\* clear_all without the update that hides the button.
ClearAllKeepsButton ==
    /\ pc = "idle"
    /\ call' = [fn |-> "clear_all"]
    /\ outcome' = Return(<<>>)
    /\ result' = <<>>
    /\ chat_history' = <<>>
    /\ graph_filename' = Null
    /\ graph_status' = SReady
    /\ UNCHANGED <<storeVars, envVars, debugVars, trav, pc, node_map,
                   relationships, button_visible>>

\* clear_all, on the clear button.
ClearAll ==
    /\ pc = "idle"
    /\ call' = [fn |-> "clear_all"]
    /\ outcome' = Return(<<>>)
    /\ result' = <<>>
    /\ chat_history' = <<>>
    /\ graph_filename' = Null
    /\ graph_status' = SReady
    /\ button_visible' = FALSE
    /\ UNCHANGED <<storeVars, envVars, debugVars, trav, pc, node_map,
                   relationships>>

\* open_graph_in_browser(filename), on the open-graph button, which can be
\* clicked when it is shown; webbrowser.open may raise.
OpenGraphInBrowser ==
    /\ pc = "idle"
    /\ button_visible
    /\ \E opens \in BOOLEAN :
        /\ call' = [fn |-> "open_graph_in_browser",
                    filename |-> graph_filename,
                    opens |-> opens /\ graph_filename # Null]
        /\ graph_status' = IF graph_filename = Null THEN SNoFile
                           ELSE IF opens THEN SOpened ELSE SErrorOpening
    /\ outcome' = Return(<<>>)
    /\ result' = <<>>
    /\ UNCHANGED <<storeVars, envVars, debugVars, trav, pc, node_map,
                   relationships, chat_history, graph_filename,
                   button_visible>>

UINext ==
    \/ ProcessBlank
    \/ UIChainInvoke
    \/ ChainReturned
    \/ ChainRaised
    \/ GenerateGraphVisualization
    \/ ClearAll
    \/ OpenGraphInBrowser

UISpec == UIInit /\ [][UINext]_vars

\* -------------------------------------------------------------------
\* C13. After any sequence of questions (blank, failing, succeeding),
\* clears and clicks on the open-graph button, the button is shown if and
\* only if graph_filename holds a file name, and that name is the file the
\* most recent query has written: a blank question, a failure of the chain
\* and clear_all leave no file name, and generate_graph_visualization
\* leaves one exactly when it has drawn data, the name of the file of the
\* entity it has queried.
C13_ButtonIffFile ==
    /\ button_visible <=> graph_filename # Null
    /\ graph_filename # Null => graph_filename \in written
    /\ (AfterQuery /\ pc = "idle") => graph_filename = Null
    /\ (call # NoCall /\ call.fn = "clear_all") => graph_filename = Null
    /\ InGraph =>
        /\ graph_filename # Null <=> node_map # EmptyMap
        /\ graph_filename # Null =>
              graph_filename = GraphFilename(call.queried[1])

\* A question whose chain fails after a question whose graph was shown.
C13_Witness ==
    /\ AfterQuery
    /\ call.raised # "none"
    /\ pc = "idle"
    /\ Len(chat_history) = 2
    /\ written # {}
    /\ ~button_visible

\* ===================================================================
\* The debug log: handler calls running at the same time on the global
\* DEBUG_MODE and debug_logs of app.py. Each call is followed through
\* its uses of the two globals; what the handlers do with the question is
\* in the specifications above. A run of consecutive log_debug calls is one
\* message.
\* ===================================================================
\* The message that call `p` logs at place `at` of its handler: a letter for
\* the place ("S"tart, "R"esponse, "E"rror, "G"raph, "O"pen) and the digit
\* of the call.
Message(p, at) == <<at, 48 + p>>
LogPlaces == {83, 82, 69, 71, 79}

\* log_debug(message): the list after it.
log_debug(message) ==
    IF DEBUG_MODE THEN Append(debug_logs, message) ELSE debug_logs

\* get_debug_logs()
get_debug_logs == IF debug_logs = <<>> THEN <<>> ELSE Join(debug_logs)

\* Call p at the place `at`, with the debug output it returns and the flag
\* as it is when it returns.
Handler(at, output, mode) == [pc |-> at, output |-> output, mode |-> mode]

At(p, place) == handlers[p].pc = place

\* process_unified_query: clear_debug_logs(), and the return for a blank
\* question.
QueryStart(p) ==
    /\ At(p, "idle")
    /\ debug_logs' = <<>>
    /\ \E question \in Questions :
        handlers' = [handlers EXCEPT ![p] =
            IF Strip(question) = <<>>
            THEN Handler("returned", <<>>, DEBUG_MODE)
            ELSE Handler("start", <<>>, DEBUG_MODE)]
    /\ UNCHANGED <<storeVars, envVars, callVars, trav, uiVars, DEBUG_MODE>>

\* The log_debug calls before chain.invoke.
QueryLogStart(p) ==
    /\ At(p, "start")
    /\ debug_logs' = log_debug(Message(p, 83))
    /\ handlers' = [handlers EXCEPT ![p].pc = "chain"]
    /\ UNCHANGED <<storeVars, envVars, callVars, trav, uiVars, DEBUG_MODE>>

\* chain.invoke returns or raises, and the log_debug calls that follow.
QueryChain(p) ==
    /\ At(p, "chain")
    /\ \E raises \in BOOLEAN :
        /\ debug_logs' = log_debug(Message(p, IF raises THEN 69 ELSE 82))
        /\ handlers' = [handlers EXCEPT
                ![p].pc = IF raises THEN "except" ELSE "graph"]
    /\ UNCHANGED <<storeVars, envVars, callVars, trav, uiVars, DEBUG_MODE>>

\* The return of the except branch: get_debug_logs(), whatever the flag.
QueryExcept(p) ==
    /\ At(p, "except")
    /\ handlers' = [handlers EXCEPT
            ![p] = Handler("returned", get_debug_logs, DEBUG_MODE)]
    /\ UNCHANGED <<storeVars, envVars, callVars, trav, uiVars, DEBUG_MODE,
                   debug_logs>>

\* generate_graph_visualization and its log_debug calls.
QueryGraph(p) ==
    /\ At(p, "graph")
    /\ debug_logs' = log_debug(Message(p, 71))
    /\ handlers' = [handlers EXCEPT ![p].pc = "final"]
    /\ UNCHANGED <<storeVars, envVars, callVars, trav, uiVars, DEBUG_MODE>>

\* debug_output = get_debug_logs() if DEBUG_MODE else "", and the return.
QueryFinal(p) ==
    /\ At(p, "final")
    /\ handlers' = [handlers EXCEPT
            ![p] = Handler("returned",
                           IF DEBUG_MODE THEN get_debug_logs ELSE <<>>,
                           DEBUG_MODE)]
    /\ UNCHANGED <<storeVars, envVars, callVars, trav, uiVars, DEBUG_MODE,
                   debug_logs>>

\* The response of the call is delivered.
QueryDone(p) ==
    /\ At(p, "returned")
    /\ handlers' = [handlers EXCEPT ![p] = HandlerIdle]
    /\ UNCHANGED <<storeVars, envVars, callVars, trav, uiVars, DEBUG_MODE,
                   debug_logs>>

\* toggle_debug_mode
ToggleDebugMode(p) ==
    /\ At(p, "idle")
    /\ DEBUG_MODE' = ~DEBUG_MODE
    /\ UNCHANGED <<storeVars, envVars, callVars, trav, uiVars, debug_logs,
                   handlers>>

\* clear_all: clear_debug_logs()
ClearDebugLogs(p) ==
    /\ At(p, "idle")
    /\ debug_logs # <<>>
    /\ debug_logs' = <<>>
    /\ UNCHANGED <<storeVars, envVars, callVars, trav, uiVars, DEBUG_MODE,
                   handlers>>

\* open_graph_in_browser with a file name: its log_debug call.
OpenGraphLog(p) ==
    /\ At(p, "idle")
    /\ Len(debug_logs) < 2 * MaxProcs
    /\ debug_logs' = log_debug(Message(p, 79))
    /\ debug_logs' # debug_logs
    /\ UNCHANGED <<storeVars, envVars, callVars, trav, uiVars, DEBUG_MODE,
                   handlers>>

DebugNext ==
    \E p \in Procs :
        \/ QueryStart(p)
        \/ QueryLogStart(p)
        \/ QueryChain(p)
        \/ QueryExcept(p)
        \/ QueryGraph(p)
        \/ QueryFinal(p)
        \/ QueryDone(p)
        \/ ToggleDebugMode(p)
        \/ ClearDebugLogs(p)
        \/ OpenGraphLog(p)

\* The store has no part in the debug log: one store, without
\* relationships.
DebugInit ==
    /\ nodeId = PlainNodeIds
    /\ rels = <<>>
    /\ InitRest

DebugSpec == DebugInit /\ [][DebugNext]_vars

\* -------------------------------------------------------------------
\* C15. Debug-log isolation: the debug output a process_unified_query call
\* returns holds only messages that call has logged, and is empty whenever
\* debug mode is off when the call returns, in any interleaving of
\* process_unified_query, toggle_debug_mode, open_graph_in_browser and
\* clear_all calls. The statement of the claim; the calls share one flag
\* and one list.
C15_DebugLogIsolation ==
    \A p \in Procs :
        At(p, "returned") =>
            /\ \A q \in Procs \ {p} : \A at \in LogPlaces :
                  ~Contains(handlers[p].output, Message(q, at))
            /\ ~handlers[p].mode => handlers[p].output = <<>>

====
